---- MODULE Spec2Model ----
(***************************************************************************)
(* Model of the process Governor of server/script/ipc/governor.go.        *)
(*                                                                         *)
(* A Governor owns one Process handle and a cancellable Mutex.  Callers    *)
(* (goroutines) invoke Exchange, ExchangeDirect, Kill and Wait on it       *)
(* concurrently.  Every call of a Process method (Send, Receive, Wait,     *)
(* Spawn, Kill) takes two steps in the model, the call and its return, so  *)
(* that two callers being inside the process handle at once is a state.    *)
(* The Process is an interface: what its methods return is chosen by the   *)
(* environment.  The Mutex type is declared outside governor.go; it is     *)
(* modelled from its contract (Lock(ctx) acquires or fails with the        *)
(* context's error, the returned function releases).                       *)
(***************************************************************************)
EXTENDS Integers, Sequences, FiniteSets, TLC

\* ---------------------------------------------------------------- bounds
NumCallers == 2        \* goroutines sharing the Governor
MaxCalls == 2          \* Governor methods invoked in one behaviour
MaxHandles == 2        \* process handle names; a respawn takes the next one
MaxCount == 3          \* per-call observation counters saturate here

Callers == 1..NumCallers
Handles == 1..MaxHandles
Template == 0          \* the Process given to Govern, never started itself

\* ---------------------------------------------------------------- errors
\* An error is its message (a sequence of fragments, outermost label first)
\* and the sentinel at the end of its cause chain.
Err(m, s) == [msg |-> m, cause |-> s]
Nil == Err(<< >>, "nil")
ErrEOF == Err(<<"EOF">>, "io.EOF")
ErrEOFText == Err(<<"EOF">>, "errorString")
ErrClosed == Err(<<"read |0", "file already closed">>, "os.ErrClosed")
ErrPipe == Err(<<"write |1", "broken pipe">>, "syscall.EPIPE")
ErrBadRequest == Err(<<"bad request">>, "ErrBadRequest")
ErrCtx == Err(<<"context deadline exceeded">>, "context.DeadlineExceeded")
ErrExit == Err(<<"exit status 1">>, "exec.ExitError")
ErrFork == Err(<<"fork/exec">>, "syscall.ENOENT")

\* errors.Wrap(err, label): the label is prepended to the message, the
\* cause chain still ends in the same sentinel.
Wrap(e, label) == Err(<<label>> \o e.msg, e.cause)
\* errors.Is(err, target)
Is(e, sentinel) == e.cause = sentinel
\* strings.Contains(err.Error(), fragment)
Contains(e, fragment) == \E i \in 1..Len(e.msg) : e.msg[i] = fragment

\* Errors the worker's pipes produce on their own: writing the request,
\* reading the response.
SendErrors == {ErrPipe, ErrBadRequest}
ReceiveErrors == {ErrEOF, ErrClosed, ErrEOFText}

\* -------------------------------------------------------------- payloads
NoData == << >>
\* The request payload of caller c: payloads are opaque to the Governor,
\* every caller brings its own.
Payload(c) == <<"Q", c>>
\* The response of worker h to request q.
Resp(h, q) == <<"R", h>> \o q

Ops == {"Exchange", "ExchangeDirect", "Kill", "Wait"}

VARIABLES
    gov,              \* "init" | "ok" | "failed": outcome of Govern
    govErr,           \* the error Govern returned
    tmplSpawns,       \* Spawn calls made on the template
    process,          \* Governor.process: the current handle
    mu,               \* Governor.mu: 0 unlocked, else the caller holding it
    status,           \* per handle: "unborn" | "running" | "killed" | "reaped"
    pend,             \* per handle: requests sent and not yet answered
    blockingReceive,  \* the worker never answers: Receive blocks until ctx is done
    calls,            \* Governor methods invoked so far
    pc,               \* per caller: where it is in its method
    op,               \* per caller: the method it is running
    ctx,              \* per caller: "background" | "live" | "done"
    data,             \* per caller: the request payload parameter
    tgt,              \* per caller: handle whose method it is inside
    obs,              \* per caller: observations of the call in progress
    last              \* the call that returned in the last step, and its result

vars == <<gov, govErr, tmplSpawns, process, mu, status, pend, blockingReceive,
          calls, pc, op, ctx, data, tgt, obs, last>>

Inc(n) == IF n < MaxCount THEN n + 1 ELSE n

\* h0: the current handle when the mutex was acquired; locked: the mutex was
\* acquired; xerr, answer: what the latest g.exchange returned; reap: result
\* of Wait in this loop iteration; nSend .. nSpawn: calls of the handle's
\* methods; respawns: assignments to g.process; sawKill: a Kill returned
\* while this call waited for the mutex, and the handle it killed was still
\* the current one when the mutex was acquired.
NewObs == [h0 |-> 0, locked |-> FALSE, xerr |-> Nil, answer |-> NoData,
           reap |-> "none", nSend |-> 0, nRecv |-> 0, nWait |-> 0,
           nSpawn |-> 0, respawns |-> 0, sawKill |-> FALSE]

\* gret: g.process when the call returned.
NoLast == [caller |-> 0, op |-> "none", data |-> NoData, ret |-> NoData,
           err |-> Nil, gret |-> 0, obs |-> NewObs]

\* The caller is inside a method of the process handle.
InProcess(c) == pc[c] \in {"Send", "Receive", "Reap", "Spawn", "Kill", "Wait"}

Init ==
    /\ gov = "init"
    /\ govErr = Nil
    /\ tmplSpawns = 0
    /\ process = Template
    /\ mu = 0
    /\ status = [h \in Handles |-> "unborn"]
    /\ pend = [h \in Handles |-> << >>]
    /\ blockingReceive \in BOOLEAN
    /\ calls = 0
    /\ pc = [c \in Callers |-> "idle"]
    /\ op = [c \in Callers |-> "none"]
    /\ ctx = [c \in Callers |-> "background"]
    /\ data = [c \in Callers |-> NoData]
    /\ tgt = [c \in Callers |-> 0]
    /\ obs = [c \in Callers |-> NewObs]
    /\ last = NoLast

\* ------------------------------------------------- Process (environment)
\* The handle a Spawn called on h names.
NextHandle(h) == (h % MaxHandles) + 1

SpawnOutcomes == {Nil, ErrFork}
WaitOutcomes == {Nil, ErrExit}

\* What Send(ctx, data) on handle h can return to caller c.  A handle that
\* was killed or reaped accepts no request.
SendOutcomes(c, h) ==
    (IF blockingReceive \/ status[h] = "running" THEN {Nil} ELSE {})
    \cup (IF blockingReceive THEN {} ELSE SendErrors)
    \cup (IF ctx[c] = "done" THEN {ErrCtx} ELSE {})

\* What Receive(ctx) on handle h can return to caller c: <<payload, error,
\* whether the oldest pending request was consumed>>.  The worker answers
\* its requests in order; a Receive given up on cancellation leaves the
\* response to be read by the next Receive.
ReceiveOutcomes(c, h) ==
    (IF ~blockingReceive /\ status[h] = "running" /\ pend[h] # << >>
        THEN {<<Resp(h, Head(pend[h])), Nil, TRUE>>} ELSE {})
    \cup (IF blockingReceive THEN {}
          ELSE {<<NoData, e, TRUE>> : e \in ReceiveErrors})
    \cup (IF ctx[c] = "done" THEN {<<NoData, ErrCtx, FALSE>>} ELSE {})

\* ------------------------------------------------------- Mutex (contract)
MutexLock(c) == mu = 0 /\ mu' = c
MutexRelease == mu' = 0

\* ------------------------------------------------------------------ Govern
\* Govern spawning a second time when the first Spawn failed.
GovernSpawnedRetry(e) ==
    /\ gov' = "ok"
    /\ govErr' = Nil
    /\ tmplSpawns' = tmplSpawns + (IF e # Nil THEN 2 ELSE 1)
    /\ process' = NextHandle(Template)
    /\ status' = [status EXCEPT ![NextHandle(Template)] = "running"]

\* Govern returning Spawn's error without its label.
GovernSpawnedBare(e) ==
    IF e # Nil
       THEN /\ gov' = "failed"
            /\ govErr' = e
            /\ tmplSpawns' = tmplSpawns + 1
            /\ UNCHANGED <<process, status>>
       ELSE /\ gov' = "ok"
            /\ govErr' = Nil
            /\ tmplSpawns' = tmplSpawns + 1
            /\ process' = NextHandle(Template)
            /\ status' = [status EXCEPT ![NextHandle(Template)] = "running"]

\* Govern, lines 53-61, with the outcome e of the template's Spawn.
GovernSpawned(e) ==
    IF e # Nil
       THEN /\ gov' = "failed"
            /\ govErr' = Wrap(e, "spawn")
            /\ tmplSpawns' = tmplSpawns + 1
            /\ UNCHANGED <<process, status>>
       ELSE /\ gov' = "ok"
            /\ govErr' = Nil
            /\ tmplSpawns' = tmplSpawns + 1
            /\ process' = NextHandle(Template)
            /\ status' = [status EXCEPT ![NextHandle(Template)] = "running"]

Govern ==
    /\ gov = "init"
    /\ \E e \in SpawnOutcomes : GovernSpawned(e)
    /\ last' = NoLast
    /\ UNCHANGED <<mu, pend, blockingReceive, calls, pc, op, ctx, data, tgt,
                   obs>>

\* Kill and Wait lock under context.Background(); the context of an
\* exchange may expire while the call runs, or never.
Context(o) == IF o \in {"Kill", "Wait"} THEN "background" ELSE "live"

\* A goroutine invokes method o.
Call(c, o) ==
    /\ gov = "ok"
    /\ pc[c] = "idle"
    /\ calls < MaxCalls
    /\ calls' = calls + 1
    /\ pc' = [pc EXCEPT ![c] = "lock"]
    /\ op' = [op EXCEPT ![c] = o]
    /\ ctx' = [ctx EXCEPT ![c] = Context(o)]
    /\ data' = [data EXCEPT ![c] =
                  IF o \in {"Exchange", "ExchangeDirect"}
                     THEN Payload(c) ELSE NoData]
    /\ last' = NoLast
    /\ UNCHANGED <<gov, govErr, tmplSpawns, process, mu, status, pend,
                   blockingReceive, tgt, obs>>

\* The caller's context is cancelled or reaches its deadline.
CtxExpire(c) ==
    /\ ctx[c] = "live"
    /\ pc[c] # "idle"
    /\ ctx' = [ctx EXCEPT ![c] = "done"]
    /\ last' = NoLast
    /\ UNCHANGED <<gov, govErr, tmplSpawns, process, mu, status, pend,
                   blockingReceive, calls, pc, op, data, tgt, obs>>

\* ------------------------------------------------------ returning a call
\* The call of c returns (d, e) to its caller; o is what it observed.
Returned(c, d, e, o) ==
    /\ pc' = [pc EXCEPT ![c] = "idle"]
    /\ op' = [op EXCEPT ![c] = "none"]
    /\ ctx' = [ctx EXCEPT ![c] = "background"]
    /\ data' = [data EXCEPT ![c] = NoData]
    /\ tgt' = [tgt EXCEPT ![c] = 0]
    /\ last' = [caller |-> c, op |-> op[c], data |-> data[c], ret |-> d,
                err |-> e, gret |-> process, obs |-> o]

\* A method returning without its deferred release having run.
FinishHolding(c, d, e, o) ==
    /\ Returned(c, d, e, o)
    /\ UNCHANGED mu
    /\ obs' = [obs EXCEPT ![c] = NewObs]

\* A method that holds the mutex returns; its deferred cancel() releases
\* the mutex.
Finish(c, d, e, o) ==
    /\ Returned(c, d, e, o)
    /\ MutexRelease
    /\ obs' = [obs EXCEPT ![c] = NewObs]

\* The error of Lock being ignored: on a done context the method goes on
\* without the mutex.
LockOrAbortIgnored(c, next) ==
    \/ /\ MutexLock(c)
       /\ pc' = [pc EXCEPT ![c] = next]
       /\ obs' = [obs EXCEPT ![c] =
                    [@ EXCEPT !.h0 = process, !.locked = TRUE,
                              !.sawKill = @ /\ status[process] = "killed"]]
       /\ last' = NoLast
       /\ UNCHANGED <<op, ctx, data>>
    \/ /\ ctx[c] = "done"
       /\ pc' = [pc EXCEPT ![c] = next]
       /\ last' = NoLast
       /\ UNCHANGED <<mu, obs, op, ctx, data>>

\* g.mu.Lock(ctx) of Exchange and ExchangeDirect: the lock is acquired, or
\* the context is done and its error is returned with no lock held.
LockOrAbort(c, next) ==
    \/ /\ MutexLock(c)
       /\ pc' = [pc EXCEPT ![c] = next]
       /\ obs' = [obs EXCEPT ![c] =
                    [@ EXCEPT !.h0 = process, !.locked = TRUE,
                              !.sawKill = @ /\ status[process] = "killed"]]
       /\ last' = NoLast
       /\ UNCHANGED <<op, ctx, data>>
    \/ /\ ctx[c] = "done"
       /\ Returned(c, NoData, ErrCtx, obs[c])
       /\ obs' = [obs EXCEPT ![c] = NewObs]
       /\ UNCHANGED mu

\* Exchange entering its loop without taking the mutex.
ExchangeLockSkipped(c) ==
    /\ pc[c] = "lock"
    /\ op[c] = "Exchange"
    /\ pc' = [pc EXCEPT ![c] = "loop"]
    /\ obs' = [obs EXCEPT ![c] = [@ EXCEPT !.h0 = process, !.locked = TRUE]]
    /\ last' = NoLast
    /\ UNCHANGED <<gov, govErr, tmplSpawns, process, mu, status, pend,
                   blockingReceive, calls, op, ctx, data, tgt>>

\* Exchange, lines 65-70.
ExchangeLock(c) ==
    /\ pc[c] = "lock"
    /\ op[c] = "Exchange"
    /\ LockOrAbort(c, "loop")
    /\ UNCHANGED <<gov, govErr, tmplSpawns, process, status, pend,
                   blockingReceive, calls, tgt>>

\* ExchangeDirect, lines 117-122.
ExchangeDirectLock(c) ==
    /\ pc[c] = "lock"
    /\ op[c] = "ExchangeDirect"
    /\ LockOrAbort(c, "direct")
    /\ UNCHANGED <<gov, govErr, tmplSpawns, process, status, pend,
                   blockingReceive, calls, tgt>>

\* g.exchange using the handle read when the mutex was acquired.
CallSendStale(c) ==
    /\ pc' = [pc EXCEPT ![c] = "Send"]
    /\ tgt' = [tgt EXCEPT ![c] = obs[c].h0]
    /\ obs' = [obs EXCEPT ![c] =
                 [@ EXCEPT !.nSend = Inc(@), !.reap = "none", !.xerr = Nil,
                           !.answer = NoData]]
    /\ last' = NoLast
    /\ UNCHANGED <<mu, op, ctx, data>>

\* g.exchange is entered: Send is called on the current handle (line 109).
CallSend(c) ==
    /\ pc' = [pc EXCEPT ![c] = "Send"]
    /\ tgt' = [tgt EXCEPT ![c] = process]
    /\ obs' = [obs EXCEPT ![c] =
                 [@ EXCEPT !.nSend = Inc(@), !.reap = "none", !.xerr = Nil,
                           !.answer = NoData]]
    /\ last' = NoLast
    /\ UNCHANGED <<mu, op, ctx, data>>

\* ExchangeDirect, line 123.
ExchangeDirectCall(c) ==
    /\ pc[c] = "direct"
    /\ CallSend(c)
    /\ UNCHANGED <<gov, govErr, tmplSpawns, process, status, pend,
                   blockingReceive, calls>>

\* Exchange checking its context only before the first attempt.
ExchangeLoopCheckedOnce(c) ==
    /\ pc[c] = "loop"
    /\ IF ctx[c] = "done" /\ obs[c].nSend = 0
          THEN Finish(c, NoData, ErrCtx, obs[c])
          ELSE CallSend(c)
    /\ UNCHANGED <<gov, govErr, tmplSpawns, process, status, pend,
                   blockingReceive, calls>>

\* Exchange, lines 72-79: the context check at the top of the loop, then
\* g.exchange.
ExchangeLoop(c) ==
    /\ pc[c] = "loop"
    /\ IF ctx[c] = "done"
          THEN Finish(c, NoData, ErrCtx, obs[c])
          ELSE CallSend(c)
    /\ UNCHANGED <<gov, govErr, tmplSpawns, process, status, pend,
                   blockingReceive, calls>>

\* The context's error taking the reap-and-respawn path as well.
IsTransientOrContext(e) ==
    \/ Is(e, "io.EOF")
    \/ Contains(e, "file already closed")
    \/ Contains(e, "broken pipe")
    \/ Is(e, "context.DeadlineExceeded")

\* Every exchange error taking the reap-and-respawn path.
IsTransientAny(e) == e # Nil

\* EOF recognised by its message, as the other two signatures are.
IsTransientByText(e) ==
    \/ Contains(e, "EOF")
    \/ Contains(e, "file already closed")
    \/ Contains(e, "broken pipe")

\* Exchange, lines 86-88: the error takes the reap-and-respawn path.
IsTransient(e) ==
    \/ Is(e, "io.EOF")
    \/ Contains(e, "file already closed")
    \/ Contains(e, "broken pipe")

\* ExchangeDirect running the respawn loop as Exchange does.
RetriesDirect(o) == o \in {"Exchange", "ExchangeDirect"}

\* ExchangeDirect returns what g.exchange returned (line 123); Exchange
\* goes on to lines 80-104.
Retries(o) == o = "Exchange"

\* Exchange going round its loop again on an error that is not transient.
ExchangedRetrying(c, d, e) ==
    LET o == [obs[c] EXCEPT !.xerr = e, !.answer = d] IN
    IF e = Nil \/ op[c] # "Exchange"
       THEN Finish(c, d, e, o)
       ELSE IF IsTransient(e)
          THEN /\ pc' = [pc EXCEPT ![c] = "Reap"]
               /\ tgt' = [tgt EXCEPT ![c] = process]
               /\ obs' = [obs EXCEPT ![c] = [o EXCEPT !.nWait = Inc(@)]]
               /\ last' = NoLast
               /\ UNCHANGED <<mu, op, ctx, data>>
          ELSE /\ pc' = [pc EXCEPT ![c] = "loop"]
               /\ tgt' = [tgt EXCEPT ![c] = 0]
               /\ obs' = [obs EXCEPT ![c] = o]
               /\ last' = NoLast
               /\ UNCHANGED <<mu, op, ctx, data>>

\* Exchange returning its own parameter data, not the response that
\* shadows it (line 79), on success.
ExchangedEcho(c, d, e) ==
    LET o == [obs[c] EXCEPT !.xerr = e, !.answer = d] IN
    IF ~Retries(op[c])
       THEN Finish(c, d, e, o)
       ELSE IF e = Nil
          THEN Finish(c, data[c], Nil, o)
          ELSE IF IsTransient(e)
             THEN /\ pc' = [pc EXCEPT ![c] = "Reap"]
                  /\ tgt' = [tgt EXCEPT ![c] = process]
                  /\ obs' = [obs EXCEPT ![c] = [o EXCEPT !.nWait = Inc(@)]]
                  /\ last' = NoLast
                  /\ UNCHANGED <<mu, op, ctx, data>>
             ELSE Finish(c, NoData, e, o)

\* Exchange assigning the result of g.exchange to its parameter data
\* (= for := in line 79): the retry sends the nil result of the failed
\* attempt.
ExchangedClobbering(c, d, e) ==
    LET o == [obs[c] EXCEPT !.xerr = e, !.answer = d] IN
    IF ~Retries(op[c])
       THEN Finish(c, d, e, o)
       ELSE IF e = Nil
          THEN Finish(c, d, Nil, o)
          ELSE IF IsTransient(e)
             THEN /\ pc' = [pc EXCEPT ![c] = "Reap"]
                  /\ tgt' = [tgt EXCEPT ![c] = process]
                  /\ obs' = [obs EXCEPT ![c] = [o EXCEPT !.nWait = Inc(@)]]
                  /\ data' = [data EXCEPT ![c] = d]
                  /\ last' = NoLast
                  /\ UNCHANGED <<mu, op, ctx>>
             ELSE Finish(c, NoData, e, o)

\* g.exchange has returned (d, e) to the method of c.
Exchanged(c, d, e) ==
    LET o == [obs[c] EXCEPT !.xerr = e, !.answer = d] IN
    IF ~Retries(op[c])
       THEN Finish(c, d, e, o)
       ELSE IF e = Nil
          THEN Finish(c, d, Nil, o)
          ELSE IF IsTransient(e)
             THEN /\ pc' = [pc EXCEPT ![c] = "Reap"]
                  /\ tgt' = [tgt EXCEPT ![c] = process]
                  /\ obs' = [obs EXCEPT ![c] = [o EXCEPT !.nWait = Inc(@)]]
                  /\ last' = NoLast
                  /\ UNCHANGED <<mu, op, ctx, data>>
             ELSE Finish(c, NoData, e, o)

\* exchange, lines 109-113: Send returns; on success Receive is called.
exchangeSend(c) ==
    /\ pc[c] = "Send"
    /\ \E e \in SendOutcomes(c, tgt[c]) :
         IF e = Nil
            THEN /\ pend' = [pend EXCEPT ![tgt[c]] = Append(@, data[c])]
                 /\ pc' = [pc EXCEPT ![c] = "Receive"]
                 /\ obs' = [obs EXCEPT ![c] = [@ EXCEPT !.nRecv = Inc(@)]]
                 /\ last' = NoLast
                 /\ UNCHANGED <<mu, op, ctx, data, tgt>>
            ELSE /\ Exchanged(c, NoData, e)
                 /\ UNCHANGED pend
    /\ UNCHANGED <<gov, govErr, tmplSpawns, process, status, blockingReceive,
                   calls>>

\* exchange, line 113: Receive returns.
exchangeReceive(c) ==
    /\ pc[c] = "Receive"
    /\ \E r \in ReceiveOutcomes(c, tgt[c]) :
         /\ pend' = IF r[3] /\ pend[tgt[c]] # << >>
                       THEN [pend EXCEPT ![tgt[c]] = Tail(@)]
                       ELSE pend
         /\ Exchanged(c, r[1], r[2])
    /\ UNCHANGED <<gov, govErr, tmplSpawns, process, status, blockingReceive,
                   calls>>

\* The handle h has been waited for with result e.
Waited(h, e) ==
    IF e = Nil
       THEN /\ status' = [status EXCEPT ![h] = "reaped"]
            /\ pend' = [pend EXCEPT ![h] = << >>]
       ELSE UNCHANGED <<status, pend>>

\* The result of Wait being ignored.
AfterReapIgnored(e) == "Spawn"

\* Exchange, lines 90-94: what follows g.process.Wait() returning e.
AfterReap(e) == IF e # Nil THEN "return" ELSE "Spawn"

\* Exchange returning the exchange's error, not Wait's, when the reap fails.
ExchangeReapOuterError(c) ==
    /\ pc[c] = "Reap"
    /\ \E e \in WaitOutcomes :
         /\ Waited(tgt[c], e)
         /\ LET o == [obs[c] EXCEPT !.reap = IF e = Nil THEN "ok" ELSE "failed"]
            IN IF AfterReap(e) = "return"
                  THEN Finish(c, NoData, obs[c].xerr, o)
                  ELSE /\ pc' = [pc EXCEPT ![c] = "Spawn"]
                       /\ tgt' = [tgt EXCEPT ![c] = process]
                       /\ obs' = [obs EXCEPT ![c] =
                                    [o EXCEPT !.nSpawn = Inc(@), !.xerr = Nil]]
                       /\ last' = NoLast
                       /\ UNCHANGED <<mu, op, ctx, data>>
    /\ UNCHANGED <<gov, govErr, tmplSpawns, process, blockingReceive, calls>>

\* Exchange, lines 90-94: Wait on the current handle returns.
ExchangeReap(c) ==
    /\ pc[c] = "Reap"
    /\ \E e \in WaitOutcomes :
         /\ Waited(tgt[c], e)
         /\ LET o == [obs[c] EXCEPT !.reap = IF e = Nil THEN "ok" ELSE "failed"]
            IN IF AfterReap(e) = "return"
                  THEN Finish(c, NoData, e, o)
                  ELSE /\ pc' = [pc EXCEPT ![c] = "Spawn"]
                       /\ tgt' = [tgt EXCEPT ![c] = process]
                       /\ obs' = [obs EXCEPT ![c] =
                                    [o EXCEPT !.nSpawn = Inc(@), !.xerr = Nil]]
                       /\ last' = NoLast
                       /\ UNCHANGED <<mu, op, ctx, data>>
    /\ UNCHANGED <<gov, govErr, tmplSpawns, process, blockingReceive, calls>>

\* The spawned handle not being stored in the Governor.
RespawnedDropped(old, new) == old

\* Exchange, line 100: the handle the Governor holds after a respawn.
Respawned(old, new) == new

\* Spawn's error returned without its label.
RespawnErrorBare(e) == e

\* Exchange, line 96: the error returned when Spawn failed with e.
RespawnError(e) == Wrap(e, "respawn")

\* Exchange, lines 94-101: Spawn on the current handle returns.
ExchangeRespawn(c) ==
    /\ pc[c] = "Spawn"
    /\ \E e \in SpawnOutcomes :
         IF e # Nil
            THEN /\ Finish(c, NoData, RespawnError(e), obs[c])
                 /\ UNCHANGED <<process, status, pend>>
            ELSE LET new == NextHandle(tgt[c]) IN
                 /\ status' = [status EXCEPT ![new] = "running"]
                 /\ pend' = [pend EXCEPT ![new] = << >>]
                 /\ process' = Respawned(process, new)
                 /\ pc' = [pc EXCEPT ![c] = "loop"]
                 /\ tgt' = [tgt EXCEPT ![c] = 0]
                 /\ obs' = [obs EXCEPT ![c] = [@ EXCEPT !.respawns = Inc(@)]]
                 /\ last' = NoLast
                 /\ UNCHANGED <<mu, op, ctx, data>>
    /\ UNCHANGED <<gov, govErr, tmplSpawns, blockingReceive, calls>>

\* Kill, lines 128-130: lock under context.Background(), call Kill.
KillLock(c) ==
    /\ pc[c] = "lock"
    /\ op[c] = "Kill"
    /\ MutexLock(c)
    /\ pc' = [pc EXCEPT ![c] = "Kill"]
    /\ tgt' = [tgt EXCEPT ![c] = process]
    /\ obs' = [obs EXCEPT ![c] = [@ EXCEPT !.h0 = process, !.locked = TRUE]]
    /\ last' = NoLast
    /\ UNCHANGED <<gov, govErr, tmplSpawns, process, status, pend,
                   blockingReceive, calls, op, ctx, data>>

\* Kill returning without releasing the mutex.
KillReturnHolding(c) ==
    /\ pc[c] = "Kill"
    /\ status' = [status EXCEPT ![tgt[c]] =
                    IF @ = "running" THEN "killed" ELSE @]
    /\ Returned(c, NoData, Nil, obs[c])
    /\ obs' = [obs EXCEPT ![c] = NewObs]
    /\ UNCHANGED <<gov, govErr, tmplSpawns, process, mu, pend,
                   blockingReceive, calls>>

\* Kill, lines 130-131: the handle's Kill returns, the mutex is released.
KillReturn(c) ==
    /\ pc[c] = "Kill"
    /\ status' = [status EXCEPT ![tgt[c]] =
                    IF @ = "running" THEN "killed" ELSE @]
    /\ Returned(c, NoData, Nil, obs[c])
    /\ MutexRelease
    /\ obs' = [d \in Callers |->
                 IF d = c THEN NewObs
                 ELSE IF pc[d] = "lock" /\ op[d] = "Exchange"
                         THEN [obs[d] EXCEPT !.sawKill = TRUE]
                         ELSE obs[d]]
    /\ UNCHANGED <<gov, govErr, tmplSpawns, process, pend, blockingReceive,
                   calls>>

\* Wait, lines 135-137: lock under context.Background(), call Wait.
WaitLock(c) ==
    /\ pc[c] = "lock"
    /\ op[c] = "Wait"
    /\ MutexLock(c)
    /\ pc' = [pc EXCEPT ![c] = "Wait"]
    /\ tgt' = [tgt EXCEPT ![c] = process]
    /\ obs' = [obs EXCEPT ![c] = [@ EXCEPT !.h0 = process, !.locked = TRUE,
                                           !.nWait = 1]]
    /\ last' = NoLast
    /\ UNCHANGED <<gov, govErr, tmplSpawns, process, status, pend,
                   blockingReceive, calls, op, ctx, data>>

\* Wait, lines 137-142: the handle's Wait returns, the mutex is released.
WaitReturn(c) ==
    /\ pc[c] = "Wait"
    /\ \E e \in WaitOutcomes :
         /\ Waited(tgt[c], e)
         /\ Finish(c, NoData, e, obs[c])
    /\ UNCHANGED <<gov, govErr, tmplSpawns, process, blockingReceive, calls>>

\* ------------------------------------------------------------ the system
\* The steps of caller c inside a Governor method.
Step(c) ==
    \/ ExchangeLock(c)
    \/ ExchangeDirectLock(c)
    \/ ExchangeDirectCall(c)
    \/ ExchangeLoop(c)
    \/ exchangeSend(c)
    \/ exchangeReceive(c)
    \/ ExchangeReap(c)
    \/ ExchangeRespawn(c)
    \/ KillLock(c)
    \/ KillReturn(c)
    \/ WaitLock(c)
    \/ WaitReturn(c)

Next ==
    \/ Govern
    \/ \E c \in Callers, o \in Ops : Call(c, o)
    \/ \E c \in Callers : CtxExpire(c)
    \/ \E c \in Callers : Step(c)

Spec == Init /\ [][Next]_vars

\* Every goroutine inside a method keeps running: a step it can take from
\* some point on for ever (a process method returning, the mutex staying
\* free for a waiting caller) is eventually taken.
FairSpec == Spec /\ \A c \in Callers : WF_vars(Step(c))

\* Process.Wait() takes no context and returns when the process has exited,
\* which nothing in the Governor brings about: a worker that closed its
\* pipes and keeps running holds the caller in Wait.  Here every goroutine
\* keeps running as in FairSpec, but the return of the Wait that Exchange
\* calls to reap (line 90) is not promised.
FairSpecBlockingWait ==
    Spec /\ \A c \in Callers : WF_vars(Step(c) /\ pc[c] # "Reap")

\* ================================================================ claims

\* C1 (Exclusivity): in every reachable state at most one caller is inside
\* a Send, Receive, Spawn, Kill or Wait of the process handle, and that
\* caller holds the mutex.
Exclusivity ==
    /\ Cardinality({c \in Callers : InProcess(c)}) <= 1
    /\ \A c \in Callers : InProcess(c) => mu = c

\* Two callers contend: one is inside Receive, another waits for the mutex.
ExclusivityWitness ==
    \E c, d \in Callers :
        /\ c # d
        /\ pc[c] = "Receive"
        /\ pc[d] = "lock"
        /\ op[d] = "Exchange"

\* C2 (Transient-failure recovery): an Exchange whose first attempt failed
\* with a transient transport error and whose second attempt was answered
\* returns the second process's response to its request with no error,
\* after exactly one Wait and one Spawn; after one respawn the Governor
\* holds the second process.
TransientRecovery ==
    /\ (last.op = "Exchange" /\ last.obs.nSend = 2 /\ last.obs.answer # NoData)
       => /\ last.err = Nil
          /\ last.ret = Resp(NextHandle(last.obs.h0), last.data)
          /\ last.obs.respawns = 1
          /\ last.obs.nWait = 1
          /\ last.obs.nSpawn = 1
    /\ (last.op = "Exchange" /\ last.obs.respawns = 1)
       => /\ last.gret = NextHandle(last.obs.h0)
          /\ last.gret # last.obs.h0

TransientRecoveryWitness ==
    /\ last.op = "Exchange"
    /\ last.obs.nSend = 2
    /\ last.obs.answer # NoData
    /\ last.err = Nil

\* The error matches none of the transport signatures.
NoTransportSignature(e) ==
    /\ e # Nil
    /\ e.cause # "io.EOF"
    /\ \A i \in 1..Len(e.msg) :
         e.msg[i] \notin {"file already closed", "broken pipe"}

\* C3 (No respawn on application error): an Exchange whose Send or Receive
\* returned an error matching no transport signature returns that error,
\* calls neither Wait nor Spawn for it and leaves the current handle as it
\* was; with no earlier respawn in the call nothing was spawned at all.
NoRespawnOnApplicationError ==
    (last.op = "Exchange" /\ NoTransportSignature(last.obs.xerr))
    => /\ last.err = last.obs.xerr
       /\ last.obs.reap = "none"
       /\ last.obs.nWait = last.obs.respawns
       /\ last.obs.nSpawn = last.obs.respawns
       /\ last.obs.respawns = 0 => last.gret = last.obs.h0

NoRespawnOnApplicationErrorWitness ==
    /\ last.op = "Exchange"
    /\ last.obs.xerr = ErrBadRequest
    /\ last.err = ErrBadRequest
    /\ last.obs.respawns = 0

\* C4 (Reap-before-respawn): whenever Exchange is inside Spawn, Wait on the
\* handle Spawn is called on, the current one, has returned without error
\* in the same loop iteration.
ReapBeforeRespawn ==
    \A c \in Callers :
        pc[c] = "Spawn"
        => /\ obs[c].reap = "ok"
           /\ tgt[c] = process
           /\ status[tgt[c]] = "reaped"
           /\ obs[c].nWait = obs[c].nSpawn

ReapBeforeRespawnWitness ==
    \E c \in Callers : pc[c] = "Spawn" /\ obs[c].reap = "ok"

\* C7 (Exchange after teardown fails): an Exchange that waited for the
\* mutex while Kill ran, and found the killed handle still current, returns
\* an error and never a successful response.
ExchangeAfterKillFails ==
    (last.op = "Exchange" /\ last.obs.locked /\ last.obs.sawKill)
    => last.err # Nil

\* C9 (ExchangeDirect is single-shot): an ExchangeDirect that holds the
\* mutex calls Send once, Receive at most once, never Wait or Spawn, never
\* replaces the current handle, and returns what the exchange returned,
\* transient transport errors included.
ExchangeDirectSingleShot ==
    /\ \A c \in Callers :
         op[c] = "ExchangeDirect"
         => /\ pc[c] \in {"lock", "direct", "Send", "Receive"}
            /\ obs[c].nSend <= 1
            /\ obs[c].nRecv <= 1
            /\ obs[c].nWait = 0
            /\ obs[c].nSpawn = 0
            /\ obs[c].respawns = 0
            /\ obs[c].locked => process = obs[c].h0
    /\ (last.op = "ExchangeDirect" /\ last.obs.locked)
       => /\ last.obs.nSend = 1
          /\ last.obs.nRecv = (IF last.obs.answer # NoData THEN 1 ELSE last.obs.nRecv)
          /\ last.obs.nRecv <= 1
          /\ last.obs.nWait = 0
          /\ last.obs.nSpawn = 0
          /\ last.obs.respawns = 0
          /\ last.gret = last.obs.h0
          /\ last.err = last.obs.xerr
          /\ last.ret = last.obs.answer

\* An ExchangeDirect returned a transient transport error as it came.
ExchangeDirectSingleShotWitness ==
    /\ last.op = "ExchangeDirect"
    /\ last.obs.locked
    /\ last.err = ErrEOF
    /\ last.obs.nRecv = 1

\* C10 (Govern): Govern calls Spawn on the template once; after a failed
\* Spawn there is an error wrapping the cause and no Governor (no handle, no
\* call ever runs); after a successful one the Governor holds the spawned
\* handle and, before any call, an unlocked mutex.
GovernSpawnsOnce ==
    /\ tmplSpawns <= 1
    /\ gov = "init" => tmplSpawns = 0
    /\ gov = "failed"
       => /\ tmplSpawns = 1
          /\ govErr = Wrap(ErrFork, "spawn")
          /\ process = Template
          /\ calls = 0
    /\ gov = "ok"
       => /\ tmplSpawns = 1
          /\ govErr = Nil
          /\ process \in Handles
    /\ (gov = "ok" /\ calls = 0)
       => /\ process = NextHandle(Template)
          /\ status[process] = "running"
          /\ mu = 0

GovernSpawnsOnceWitness ==
    /\ gov = "failed"
    /\ tmplSpawns = 1

\* C5 (Deadline bounding): with a worker whose Receive blocks until the
\* context is done, an Exchange whose context has expired eventually
\* returns the context's error, without the mutex and without a respawn.
DeadlineBounding ==
    \A c \in Callers :
        (blockingReceive /\ op[c] = "Exchange" /\ ctx[c] = "done")
        ~> (/\ last.caller = c
            /\ last.err = ErrCtx
            /\ last.obs.respawns = 0
            /\ last.obs.nWait = 0
            /\ mu # c)

\* An Exchange was inside the blocking Receive when its deadline passed and
\* returned the context's error.
DeadlineBoundingWitness ==
    /\ blockingReceive
    /\ last.op = "Exchange"
    /\ last.obs.nRecv = 1
    /\ last.err = ErrCtx
    /\ last.obs.xerr = ErrCtx

\* The mutex is held by an Exchange or ExchangeDirect call.
HeldByExchange ==
    \E d \in Callers : mu = d /\ op[d] \in {"Exchange", "ExchangeDirect"}

\* Kill or Wait of caller c waits for the mutex.
TeardownWaiting(c) == op[c] \in {"Kill", "Wait"} /\ pc[c] = "lock"

Outcome(c) ==
    /\ last.caller = c
    /\ \/ last.err = Nil /\ last.ret = last.obs.answer
       \/ last.err # Nil /\ last.err = last.obs.xerr
       \/ last.err = ErrExit /\ last.obs.reap = "failed"
       \/ last.err = Wrap(ErrFork, "respawn") /\ last.obs.reap = "ok"

\* C8 (Eventual outcome), as claimed: with process operations that all
\* return, an Exchange that holds the mutex and whose context never expires
\* eventually returns, a response or an error.
EventualOutcome ==
    \A c \in Callers :
        (~blockingReceive /\ op[c] = "Exchange" /\ mu = c)
        ~> (ctx[c] = "done" \/ Outcome(c))

\* C8 as amended: such an Exchange eventually returns (a response, the
\* error of the exchange, or a reap or respawn error) unless it respawns the
\* worker again and again.
EventualOutcomeUnlessRespawning ==
    \A c \in Callers :
        (<>[](pc[c] # "Spawn"))
        => ((~blockingReceive /\ op[c] = "Exchange" /\ mu = c)
            ~> (ctx[c] = "done" \/ Outcome(c)))

\* An Exchange returned the error of its exchange after a respawn.
EventualOutcomeUnlessRespawningWitness ==
    /\ ~blockingReceive
    /\ last.op = "Exchange"
    /\ last.obs.respawns = 1
    /\ last.err = ErrEOFText

\* C11 (Lock release): the mutex is held exactly by the caller that acquired
\* it and has not returned yet; a call that has returned, on whatever path,
\* holds it no more, so with no Governor method in progress it is unlocked.
LockRelease ==
    /\ \A c \in Callers : obs[c].locked <=> mu = c
    /\ mu # 0 => pc[mu] \notin {"idle", "lock"}
    /\ last.caller # 0 => mu # last.caller
    /\ (\A c \in Callers : pc[c] = "idle") => mu = 0

\* An Exchange that held the mutex returned a respawn error and nothing is
\* in progress.
LockReleaseWitness ==
    /\ last.op = "Exchange"
    /\ last.obs.locked
    /\ last.err = Wrap(ErrFork, "respawn")
    /\ \A c \in Callers : pc[c] = "idle"
    /\ mu = 0

\* C12 (Cancelled lock acquisition): an Exchange or ExchangeDirect whose
\* Lock was aborted by its context returns the context's error and no
\* payload, holds no lock, has called no Send, Receive, Wait or Spawn, and
\* the step in which it returns changes neither the current handle, nor any
\* process, nor the mutex.
CancelledLockAcquisition ==
    /\ [](\/ last.op \notin {"Exchange", "ExchangeDirect"}
          \/ last.obs.locked
          \/ /\ last.err = ErrCtx
             /\ last.ret = NoData
             /\ mu # last.caller
             /\ last.obs.nSend = 0
             /\ last.obs.nRecv = 0
             /\ last.obs.nWait = 0
             /\ last.obs.nSpawn = 0
             /\ last.obs.respawns = 0)
    /\ [][\A c \in Callers :
            (/\ pc[c] = "lock"
             /\ op[c] \in {"Exchange", "ExchangeDirect"}
             /\ pc'[c] = "idle")
            => /\ last'.caller = c
               /\ ~last'.obs.locked
               /\ process' = process
               /\ status' = status
               /\ pend' = pend
               /\ mu' = mu]_vars

\* An ExchangeDirect gave up waiting for the mutex another caller holds.
CancelledLockAcquisitionWitness ==
    /\ last.op = "ExchangeDirect"
    /\ ~last.obs.locked
    /\ last.err = ErrCtx
    /\ mu # 0

\* C13 (Cancellation never triggers respawn): Exchange never reaps for a
\* context error; an Exchange ended by its context (at Lock, or by the
\* context error Send or Receive returned) returns that error as it is and
\* has called Wait and Spawn only for the respawns it completed before; an
\* Exchange ended at the top of its loop returns the context's error and
\* that step calls neither Wait nor Spawn and leaves the current handle.
CancellationNeverRespawns ==
    /\ [](/\ \A c \in Callers : pc[c] = "Reap" => obs[c].xerr # ErrCtx
          /\ (last.op = "Exchange"
              /\ (~last.obs.locked \/ last.obs.xerr = ErrCtx))
             => /\ last.err = ErrCtx
                /\ last.ret = NoData
                /\ last.obs.nWait = last.obs.respawns
                /\ last.obs.nSpawn = last.obs.respawns)
    /\ [][\A c \in Callers :
            (pc[c] = "loop" /\ pc'[c] = "idle")
            => /\ last'.caller = c
               /\ last'.err = ErrCtx
               /\ last'.obs.nWait = obs[c].nWait
               /\ last'.obs.nSpawn = obs[c].nSpawn
               /\ last'.obs.nWait = last'.obs.respawns
               /\ last'.obs.nSpawn = last'.obs.respawns
               /\ process' = process]_vars

\* After one respawn the context expired inside Receive: the Exchange
\* returned the context's error.
CancellationNeverRespawnsWitness ==
    /\ last.op = "Exchange"
    /\ last.obs.xerr = ErrCtx
    /\ last.err = ErrCtx
    /\ last.obs.respawns = 1
    /\ last.obs.nRecv = 1

\* C14 (Context check before every attempt): when an Exchange is at the top
\* of its loop and its context is done, its next step returns the context's
\* error, calls neither Send nor Receive and leaves the current handle; so
\* an Exchange is inside Send only if its context was not done at the top of
\* that iteration, and after a respawn with an expired context the new
\* handle is installed and has been sent nothing by that call.
ContextCheckedEveryIteration ==
    /\ [][\A c \in Callers :
            (pc[c] = "loop" /\ ctx[c] = "done" /\ pc'[c] # "loop")
            => /\ pc'[c] = "idle"
               /\ last'.caller = c
               /\ last'.err = ErrCtx
               /\ last'.ret = NoData
               /\ last'.obs.nSend = obs[c].nSend
               /\ last'.obs.nRecv = obs[c].nRecv
               /\ process' = process
               /\ pend' = pend
               /\ mu' = 0]_vars
    /\ [][\A c \in Callers :
            (pc[c] = "loop" /\ pc'[c] = "Send") => ctx[c] # "done"]_vars

\* The context expired during the respawn: the Exchange returned the
\* context's error with the new handle installed and never sent to.
ContextCheckedEveryIterationWitness ==
    /\ last.op = "Exchange"
    /\ last.err = ErrCtx
    /\ last.obs.respawns = 1
    /\ last.obs.nSend = 1
    /\ last.obs.xerr = Nil
    /\ last.gret = NextHandle(last.obs.h0)
    /\ status[last.gret] = "running"
    /\ pend[last.gret] = << >>

\* C15 (Reap failure is fatal): when Wait, called after a transient
\* transport error, returns an error, the Exchange returns in that step with
\* that error, having called no Spawn and no further Send, and the current
\* handle and the processes stay as they were; it goes on to Spawn only
\* when Wait succeeded.
ReapFailureIsFatal ==
    /\ []((last.op = "Exchange" /\ last.obs.reap = "failed")
          => /\ last.err = ErrExit
             /\ last.ret = NoData
             /\ IsTransient(last.obs.xerr)
             /\ last.obs.nSpawn = last.obs.respawns
             /\ last.obs.nWait = Inc(last.obs.respawns))
    /\ [][\A c \in Callers :
            (pc[c] = "Reap" /\ pc'[c] # "Reap")
            => \/ /\ pc'[c] = "Spawn"
                  /\ obs'[c].reap = "ok"
               \/ /\ pc'[c] = "idle"
                  /\ last'.caller = c
                  /\ last'.obs.reap = "failed"
                  /\ last'.obs.nSpawn = obs[c].nSpawn
                  /\ last'.obs.nSend = obs[c].nSend
                  /\ process' = process
                  /\ status' = status]_vars

\* The first reap of an Exchange failed and the Exchange returned Wait's
\* error with the handle it started with.
ReapFailureIsFatalWitness ==
    /\ last.op = "Exchange"
    /\ last.obs.reap = "failed"
    /\ last.err = ErrExit
    /\ last.obs.nSpawn = 0
    /\ last.gret = last.obs.h0

\* C16 (Respawn failure is fatal): when Spawn, called after a transient
\* transport error and a successful Wait, returns an error, the Exchange
\* returns in that step with that error wrapped as a respawn error, sends
\* nothing more and leaves the current handle; the handle is replaced only
\* when Spawn succeeded.
RespawnFailureIsFatal ==
    /\ []((last.op = "Exchange" /\ Is(last.err, "syscall.ENOENT"))
          => /\ last.err = Wrap(ErrFork, "respawn")
             /\ last.ret = NoData
             /\ last.obs.reap = "ok")
    /\ [][\A c \in Callers :
            (pc[c] = "Spawn" /\ pc'[c] # "Spawn")
            => \/ /\ pc'[c] = "loop"
                  /\ process' = NextHandle(process)
                  /\ status'[process'] = "running"
                  /\ obs'[c].respawns = Inc(obs[c].respawns)
               \/ /\ pc'[c] = "idle"
                  /\ last'.caller = c
                  /\ Is(last'.err, "syscall.ENOENT")
                  /\ Contains(last'.err, "respawn")
                  /\ last'.obs.respawns = obs[c].respawns
                  /\ last'.obs.nSend = obs[c].nSend
                  /\ process' = process
                  /\ status' = status]_vars

\* The first respawn of an Exchange failed: the Exchange returned the
\* wrapped error and the Governor still holds the reaped handle.
RespawnFailureIsFatalWitness ==
    /\ last.op = "Exchange"
    /\ last.err = Wrap(ErrFork, "respawn")
    /\ last.obs.respawns = 0
    /\ last.gret = last.obs.h0
    /\ status[last.gret] = "reaped"

\* C17 (All suspension points honour cancellation): an Exchange whose
\* context is done eventually returns to its caller, wherever it is
\* suspended, the Wait of a reap included.
CancellationHonoured ==
    \A c \in Callers :
        (op[c] = "Exchange" /\ ctx[c] = "done") ~> (pc[c] = "idle")

\* C18 (A replaced handle is never reused): every Send, Receive, Spawn, Kill
\* and Wait in progress targets the Governor's current handle; the current
\* handle is replaced only by an Exchange whose Spawn returned, by a newly
\* started process, after the old one was reaped; a handle that is not the
\* current one was replaced (or is not started yet) and no caller is inside
\* it.
ReplacedHandleNeverReused ==
    /\ [](/\ \A c \in Callers : InProcess(c) => tgt[c] = process
          /\ \A h \in Handles :
                h # process
                => /\ status[h] \in {"unborn", "reaped"}
                   /\ \A c \in Callers : tgt[c] # h)
    /\ [][process' # process
          => /\ gov = "init"
                \/ \E c \in Callers : pc[c] = "Spawn" /\ pc'[c] = "loop"
             /\ process' # Template
             /\ status'[process'] = "running"
             /\ pend'[process'] = << >>
             /\ process # Template => status'[process] = "reaped"]_vars

\* After a respawn a second caller is inside Kill or Wait of the new handle
\* while the replaced one lies reaped.
ReplacedHandleNeverReusedWitness ==
    \E c \in Callers, h \in Handles :
        /\ pc[c] \in {"Kill", "Wait"}
        /\ tgt[c] = process
        /\ h # process
        /\ status[h] = "reaped"

\* C19 (Stale-response hazard): a successful Exchange or ExchangeDirect
\* returns what Receive read, the worker's response to the oldest request
\* pending on the handle: the response to its own request when nothing else
\* is pending, and otherwise the response to a request an earlier call sent
\* and abandoned.  The hazard itself is the state StaleResponse.
ResponseIsOldestPending ==
    [][\A c \in Callers :
         (pc[c] = "Receive" /\ pc'[c] = "idle" /\ last'.err = Nil)
         => /\ last'.caller = c
            /\ last'.ret = Resp(tgt[c], Head(pend[tgt[c]]))
            /\ pend[tgt[c]][Len(pend[tgt[c]])] = data[c]
            /\ Len(pend[tgt[c]]) = 1 => last'.ret = Resp(tgt[c], data[c])]_vars

\* An Exchange returned, with no error, the response to the request of
\* another caller, who had given up on cancellation after sending it.
StaleResponse ==
    /\ last.op = "Exchange"
    /\ last.err = Nil
    /\ last.data = Payload(last.caller)
    /\ last.ret # Resp(last.gret, last.data)
    /\ \E d \in Callers :
         /\ d # last.caller
         /\ last.ret = Resp(last.gret, Payload(d))

\* C20 (Error classification): Exchange reaps exactly for io.EOF, for the
\* closed-file error and for the broken-pipe error: it is inside the Wait
\* of a reap only after one of these, and an Exchange whose exchange failed
\* with any other error (an error that merely reads "EOF", an application
\* error, the context's error) returns that error with no reap; when it
\* returns with one of the three as its last exchange error, the reap
\* failed.
ErrorClassification ==
    /\ \A c \in Callers :
         pc[c] = "Reap" => obs[c].xerr \in {ErrEOF, ErrClosed, ErrPipe}
    /\ (last.op = "Exchange"
        /\ last.obs.xerr \in {ErrEOFText, ErrBadRequest, ErrCtx})
       => /\ last.err = last.obs.xerr
          /\ last.obs.reap = "none"
          /\ last.obs.nWait = last.obs.respawns
    /\ (last.op = "Exchange"
        /\ last.obs.xerr \in {ErrEOF, ErrClosed, ErrPipe})
       => /\ last.obs.reap = "failed"
          /\ last.err = ErrExit

\* An Exchange returned, without reaping, an error whose text is "EOF" but
\* whose cause chain does not hold io.EOF.
ErrorClassificationWitness ==
    /\ last.op = "Exchange"
    /\ last.obs.xerr = ErrEOFText
    /\ last.err = ErrEOFText
    /\ last.obs.nWait = 0

\* The error carries the label and the cause of the failure it wraps.
Labelled(e, label, cause) == Contains(e, label) /\ Is(e, cause)

ReapedHandleNotUsed ==
    \A c \in Callers :
        pc[c] \in {"Send", "Receive", "Reap", "Wait"}
        => status[tgt[c]] # "reaped"

\* C23 (Retry resends the original request): while an Exchange runs, its
\* parameter data is the payload its caller passed, and every Send of the
\* call that succeeds, the first and each one after a respawn, hands the
\* worker exactly that payload.
RetryResendsOriginal ==
    /\ [](\A c \in Callers :
            (op[c] = "Exchange" /\ pc[c] # "idle") => data[c] = Payload(c))
    /\ [][\A c \in Callers :
            (op[c] = "Exchange" /\ pc[c] = "Send" /\ pc'[c] = "Receive")
            => pend'[tgt[c]] = Append(pend[tgt[c]], Payload(c))]_vars

\* After a respawn the Exchange has sent its original payload to the new
\* worker and waits for the response.
RetryResendsOriginalWitness ==
    \E c \in Callers :
        /\ op[c] = "Exchange"
        /\ pc[c] = "Receive"
        /\ obs[c].respawns = 1
        /\ tgt[c] # obs[c].h0
        /\ pend[tgt[c]] = <<Payload(c)>>

====
